---- MODULE Spec2Model ----
(***************************************************************************)
(* Browser-side card table pages of Qwanve/CS415.                          *)
(*                                                                         *)
(* static/game.js is the blackjack page (splits, betting, dealer reveal);  *)
(* the second script of static/buttons.js (lines 47-181) is its older      *)
(* version (no betting, no split handling in PlayerLeave, TotalHand and    *)
(* TotalDealerHand instead of the dealer reveal).  A page is one script:   *)
(* the variable page says which one was loaded.                            *)
(*                                                                         *)
(* The DOM is modelled by what the handlers read and write: the ordered    *)
(* list of <img> children of every container (each image is its src), the  *)
(* hidden attribute of the player containers, the disabled and hidden      *)
(* attributes of the buttons, and the slider's max.  A callback runs to    *)
(* completion; a callback that throws stops where it throws and keeps what *)
(* it already wrote.                                                       *)
(***************************************************************************)
EXTENDS Integers, Sequences, FiniteSets, TLC

\* ------------------------------------------------------------------ bounds
\* Number of player containers player0 .. player(K-1) on the page, each with
\* its split container player<i>.1 (the HTML is not part of the sources).
K == 3
\* Card images created by Dealt / DealDealer messages before the model stops
\* dealing.
MaxCards == 2
\* Longest hand an EndGame / TotalHand / TotalDealerHand message carries.
MaxHand == 2
\* Calls of ws.send before the model stops clicking.
MaxSent == 2
\* The slider's max attribute when the page is loaded.
InitMax == 2
\* WebSockets a click-counter page creates before the model stops clicking
\* its join button.
MaxSockets == 3

\* ------------------------------------------------------------------- cards
Ranks == {"A", "K"}
Suits == {"S"}
\* A card of a message is {rank, suit}; JSON null is the empty tuple.
Null == << >>
Cards == Ranks \X Suits
Hands == UNION {[1..n -> Cards] : n \in 0..MaxHand}
\* What the server deals: a face-down card or a face-up one.
Deals == {Null, <<"A", "S">>}

BackSrc == "/static/cards/back.svg"
FaceSrc(card) == "/static/cards/" \o card[1] \o card[2] \o ".svg"
\* The src of the image a Dealt / DealDealer message creates.
DealtSrc(card) == IF card # Null THEN FaceSrc(card) ELSE BackSrc

Slots == 0..(K - 1)
\* document.getElementById("player" + i) (and "player" + i + ".1") is an
\* element exactly for the containers of the page, null otherwise.
Exists(i) == i \in Slots

VARIABLES
  page,          \* "game" (static/game.js), "buttons" (static/buttons.js, 2nd
                 \* script) or "click" (the click counter, unnamed/part_001, part_002)
  wsState,       \* "connecting", "open" or "closing" (after ws.close())
  timer,         \* the setTimeout of EndGame: "none", "armed" or "fired"
  onclick,       \* the buttons that have an onclick handler installed
  player_count,  \* let player_count
  main,          \* main[i]: the images of container player<i>, in order
  split,         \* split[i]: the images of container player<i>.1, in order
  dealer,        \* the images of container dealer, in order
  mainHidden,    \* mainHidden[i]: player<i> has the hidden attribute
  splitHidden,   \* splitHidden[i]: player<i>.1 has the hidden attribute
  deal_disabled, end_disabled,     \* deal_button.disabled, end_turn_button.disabled
  split_hidden, split_disabled,    \* split_button
  start_hidden, start_disabled,    \* start_button
  bet_hidden,    \* bet_button, bet_slider and bet_label are hidden
  bet_max,       \* bet_slider.max
  sent,          \* the payloads handed to ws.send, in order
  last,          \* the most recent callback: what it was and how it ended
  sockets,       \* click counter: the WebSockets created, "connecting" or "open"
  join_disabled, \* click counter: join_button is disabled and hidden
  click_hidden, click_disabled     \* click counter: click_button

table == <<player_count, main, split, dealer, mainHidden, splitHidden>>
controls == <<deal_disabled, end_disabled, split_hidden, split_disabled,
              start_hidden, start_disabled, bet_hidden, bet_max>>
counter == <<sockets, join_disabled, click_hidden, click_disabled>>
vars == <<page, wsState, timer, onclick, table, controls, sent, last, counter>>

\* How a callback ends: normally, or with the uncaught TypeError of
\*   null_element  a property of a null getElementById result is used,
\*   null_child    appendChild(null): firstChild of an empty container,
\*   no_image      imgs[idx] is undefined: the hand is longer than the images,
\*   null_msg      msg.hasOwnProperty of a JSON null message,
\*   null_ws       ws.send while ws is null (click counter),
\* or with the InvalidStateError of
\*   not_open      ws.send on a WebSocket that is still connecting.
Faults == {"none", "null_element", "null_child", "no_image", "null_msg",
           "null_ws", "not_open"}

Event(e, f) == [ev |-> e, fault |-> f]

\* The player containers as one value, with the count and the way the
\* callback working on them has ended so far.
Dom == [count |-> player_count, main |-> main, split |-> split,
        mainHidden |-> mainHidden, splitHidden |-> splitHidden, fault |-> "none"]

SetDom(d) ==
  /\ player_count' = d.count
  /\ main' = d.main
  /\ split' = d.split
  /\ mainHidden' = d.mainHidden
  /\ splitHidden' = d.splitHidden

RECURSIVE SumLen(_, _)
SumLen(f, i) == IF i < 0 THEN 0 ELSE Len(f[i]) + SumLen(f, i - 1)
\* The card images on the page.
Images == Len(dealer) + SumLen(main, K - 1) + SumLen(split, K - 1)

\* A callback is dispatched while the page is loaded; a message is delivered
\* only while the socket is open (none before onopen, none after ws.close()).
Loaded == timer # "fired"
Receiving == Loaded /\ wsState = "open"

\* --------------------------------------------------------------- ws.onopen
\* game.js 6-21: the three click handlers are installed when the socket opens.
OnOpen ==
  /\ Loaded /\ wsState = "connecting"
  /\ wsState' = "open"
  /\ onclick' = onclick \cup {"endturn", "deal", "split"}
  /\ last' = Event("open", "none")
  /\ UNCHANGED <<page, counter, timer, table, controls, sent>>

\* ------------------------------------------------------------- PlayerJoin
\* game.js 107-110: the loop from i on; player<i> missing throws.
RECURSIVE Reveals(_, _, _)
Reveals(d, i, n) ==
  IF i >= n THEN d
  ELSE IF ~Exists(i) THEN [d EXCEPT !.fault = "null_element"]
  ELSE Reveals([d EXCEPT !.mainHidden[i] = FALSE], i + 1, n)

\* A PlayerJoin that reveals one container too few.
PlayerJoinShort(d, n) == Reveals([d EXCEPT !.count = n], 0, n - 1)

\* game.js 104-110
PlayerJoinDom(d, n) == Reveals([d EXCEPT !.count = n], 0, n)

PlayerJoin(n) ==
  /\ Receiving
  /\ LET r == PlayerJoinDom(Dom, n)
     IN  SetDom(r) /\ last' = Event("PlayerJoin", r.fault)
  /\ UNCHANGED <<page, counter, wsState, timer, onclick, dealer, controls, sent>>

\* ------------------------------------------------------------ PlayerLeave
\* game.js 120-137: the shift loop from i on.  oldParent is player<i+1>;
\* oldParent.hasChildNodes() throws when it is missing.
RECURSIVE ShiftDown(_, _, _)
ShiftDown(d, i, n) ==
  IF i >= n THEN d
  ELSE IF ~Exists(i + 1) THEN [d EXCEPT !.fault = "null_element"]
  ELSE LET m == [d EXCEPT !.main[i] = @ \o d.main[i + 1],
                          !.main[i + 1] = << >>]
           s == IF ~m.splitHidden[i + 1]
                THEN [m EXCEPT !.splitHidden[i] = FALSE,
                               !.split[i] = @ \o m.split[i + 1],
                               !.split[i + 1] = << >>,
                               !.splitHidden[i + 1] = TRUE]
                ELSE m
       IN  ShiftDown(s, i + 1, n)

\* A PlayerLeave whose shift loop starts at player0 instead of the player who
\* left.
PlayerLeaveFromZero(d, p) ==
  IF ~Exists(p) THEN [d EXCEPT !.fault = "null_element"]
  ELSE LET c == [d EXCEPT !.main[p] = << >>, !.mainHidden[p] = TRUE,
                          !.split[p] = << >>, !.splitHidden[p] = TRUE]
           s == ShiftDown(c, 0, d.count)
       IN  IF s.fault # "none" THEN s
           ELSE IF ~Exists(d.count - 1) THEN [s EXCEPT !.fault = "null_element"]
           ELSE [s EXCEPT !.mainHidden[d.count - 1] = TRUE,
                          !.splitHidden[d.count - 1] = TRUE,
                          !.count = d.count - 1]

\* A PlayerLeave that empties and hides player<p> but not player<p>.1.
PlayerLeaveKeepsSplit(d, p) ==
  IF ~Exists(p) THEN [d EXCEPT !.fault = "null_element"]
  ELSE LET c == [d EXCEPT !.main[p] = << >>, !.mainHidden[p] = TRUE]
           s == ShiftDown(c, p, d.count)
       IN  IF s.fault # "none" THEN s
           ELSE IF ~Exists(d.count - 1) THEN [s EXCEPT !.fault = "null_element"]
           ELSE [s EXCEPT !.mainHidden[d.count - 1] = TRUE,
                          !.splitHidden[d.count - 1] = TRUE,
                          !.count = d.count - 1]

\* game.js 112-144
PlayerLeaveDom(d, p) ==
  IF ~Exists(p) THEN [d EXCEPT !.fault = "null_element"]
  ELSE LET c == [d EXCEPT !.main[p] = << >>, !.mainHidden[p] = TRUE,
                          !.split[p] = << >>, !.splitHidden[p] = TRUE]
           s == ShiftDown(c, p, d.count)
       IN  IF s.fault # "none" THEN s
           ELSE IF ~Exists(d.count - 1) THEN [s EXCEPT !.fault = "null_element"]
           ELSE [s EXCEPT !.mainHidden[d.count - 1] = TRUE,
                          !.splitHidden[d.count - 1] = TRUE,
                          !.count = d.count - 1]

PlayerLeave(p) ==
  /\ Receiving /\ page = "game"
  /\ LET r == PlayerLeaveDom(Dom, p)
     IN  SetDom(r) /\ last' = Event("PlayerLeave", r.fault)
  /\ UNCHANGED <<page, counter, wsState, timer, onclick, dealer, controls, sent>>

\* buttons.js 116-123: the shift loop of the older script (main containers only).
RECURSIVE ShiftDownOld(_, _, _)
ShiftDownOld(d, i, n) ==
  IF i >= n THEN d
  ELSE IF ~Exists(i + 1) THEN [d EXCEPT !.fault = "null_element"]
  ELSE ShiftDownOld([d EXCEPT !.main[i] = @ \o d.main[i + 1],
                              !.main[i + 1] = << >>], i + 1, n)

\* buttons.js 112-127
PlayerLeaveOldDom(d, p) ==
  IF ~Exists(p) THEN [d EXCEPT !.fault = "null_element"]
  ELSE LET s == ShiftDownOld([d EXCEPT !.main[p] = << >>], p, d.count)
       IN  IF s.fault # "none" THEN s
           ELSE IF ~Exists(d.count - 1) THEN [s EXCEPT !.fault = "null_element"]
           ELSE [s EXCEPT !.mainHidden[d.count - 1] = TRUE,
                          !.count = d.count - 1]

PlayerLeaveOld(p) ==
  /\ Receiving /\ page = "buttons"
  /\ LET r == PlayerLeaveOldDom(Dom, p)
     IN  SetDom(r) /\ last' = Event("PlayerLeave", r.fault)
  /\ UNCHANGED <<page, counter, wsState, timer, onclick, dealer, controls, sent>>

\* ------------------------------------------------------------ PlayerSplit
\* A PlayerSplit that moves the last image of player<p> instead of the first.
PlayerSplitLast(d, p) ==
  IF ~Exists(p) THEN [d EXCEPT !.fault = "null_element"]
  ELSE LET r == [d EXCEPT !.splitHidden[p] = FALSE]
       IN  IF r.main[p] = << >> THEN [r EXCEPT !.fault = "null_child"]
           ELSE [r EXCEPT !.split[p] = Append(@, r.main[p][Len(r.main[p])]),
                          !.main[p] = SubSeq(@, 1, Len(@) - 1)]

\* game.js 71-75 (buttons.js 91-95): the split container is revealed, then the
\* first image of player<p> is appended to it; appendChild(null) throws when
\* player<p> is empty.
PlayerSplitDom(d, p) ==
  IF ~Exists(p) THEN [d EXCEPT !.fault = "null_element"]
  ELSE LET r == [d EXCEPT !.splitHidden[p] = FALSE]
       IN  IF r.main[p] = << >> THEN [r EXCEPT !.fault = "null_child"]
           ELSE [r EXCEPT !.split[p] = Append(@, Head(r.main[p])),
                          !.main[p] = Tail(@)]

PlayerSplit(p) ==
  /\ Receiving
  /\ LET r == PlayerSplitDom(Dom, p)
     IN  SetDom(r) /\ last' = Event("PlayerSplit", r.fault)
  /\ UNCHANGED <<page, counter, wsState, timer, onclick, dealer, controls, sent>>

\* ------------------------------------------------------ Dealt, DealDealer
\* A Dealt that ignores second_hand.
DealtMainOnly(d, hand, second_hand, card) ==
  IF ~Exists(hand) THEN [d EXCEPT !.fault = "null_element"]
  ELSE [d EXCEPT !.main[hand] = Append(@, DealtSrc(card))]

\* game.js 146-164 (buttons.js 128-145)
DealtDom(d, hand, second_hand, card) ==
  IF ~Exists(hand) THEN [d EXCEPT !.fault = "null_element"]
  ELSE IF second_hand THEN [d EXCEPT !.split[hand] = Append(@, DealtSrc(card))]
  ELSE [d EXCEPT !.main[hand] = Append(@, DealtSrc(card))]

Dealt(hand, second_hand, card) ==
  /\ Receiving /\ Images < MaxCards
  /\ LET r == DealtDom(Dom, hand, second_hand, card)
     IN  SetDom(r) /\ last' = Event("Dealt", r.fault)
  /\ UNCHANGED <<page, counter, wsState, timer, onclick, dealer, controls, sent>>

\* game.js 166-180 (buttons.js 146-159)
DealDealer(card) ==
  /\ Receiving /\ Images < MaxCards
  /\ dealer' = Append(dealer, DealtSrc(card))
  /\ last' = Event("DealDealer", "none")
  /\ UNCHANGED <<page, counter, wsState, timer, onclick, player_count, main, split,
                 mainHidden, splitHidden, controls, sent>>

\* --------------------------------- EndGame, TotalHand, TotalDealerHand
\* A reveal that gives every image of the hand the face of the hand's last
\* card.
RewriteLastCard(imgs, hand, i) ==
  [imgs |-> [j \in 1..Len(imgs) |->
               IF j <= Len(hand) THEN FaceSrc(hand[Len(hand)]) ELSE imgs[j]],
   fault |-> IF Len(hand) > Len(imgs) THEN "no_image" ELSE "none"]

\* game.js 96-99 (buttons.js 168-171, 175-178): for (idx in hand) the idx-th
\* image gets the face of hand[idx]; imgs[idx] is undefined past the last
\* image and setting its src throws.  JavaScript counts from 0, Len from 1.
RECURSIVE Rewrite(_, _, _)
Rewrite(imgs, hand, i) ==
  IF i > Len(hand) THEN [imgs |-> imgs, fault |-> "none"]
  ELSE IF i > Len(imgs) THEN [imgs |-> imgs, fault |-> "no_image"]
  ELSE Rewrite([imgs EXCEPT ![i] = FaceSrc(hand[i])], hand, i + 1)

\* An EndGame that closes the socket and arms the redirect before it rewrites
\* the dealer's images.
EndGameCloseFirst(imgs, hand) ==
  LET r == Rewrite(imgs, hand, 1)
  IN  [imgs |-> r.imgs, fault |-> r.fault, ws |-> "closing", timer |-> "armed"]

\* game.js 93-102: the reveal, then ws.close() and the setTimeout, which an
\* exception in the reveal skips.
EndGameReveal(imgs, hand) ==
  LET r == Rewrite(imgs, hand, 1)
  IN  [imgs |-> r.imgs, fault |-> r.fault,
       ws |-> IF r.fault = "none" THEN "closing" ELSE wsState,
       timer |-> IF r.fault = "none" THEN "armed" ELSE timer]

\* game.js 77-102 (the alert shows msg.EndGame.result and changes nothing)
EndGame(dealer_hand) ==
  /\ Receiving /\ page = "game"
  /\ deal_disabled' = TRUE
  /\ end_disabled' = TRUE
  /\ LET r == EndGameReveal(dealer, dealer_hand)
     IN  /\ dealer' = r.imgs
         /\ wsState' = r.ws
         /\ timer' = r.timer
         /\ last' = Event("EndGame", r.fault)
  /\ UNCHANGED <<page, counter, onclick, player_count, main, split, mainHidden, splitHidden,
                 split_hidden, split_disabled, start_hidden, start_disabled,
                 bet_hidden, bet_max, sent>>

\* game.js 102: five seconds after EndGame the page is left for "/".
Redirect ==
  /\ timer = "armed"
  /\ timer' = "fired"
  /\ last' = Event("redirect", "none")
  /\ UNCHANGED <<page, counter, wsState, onclick, table, controls, sent>>

\* buttons.js 96-104
EndGameOld ==
  /\ Receiving /\ page = "buttons"
  /\ deal_disabled' = TRUE
  /\ end_disabled' = TRUE
  /\ wsState' = "closing"
  /\ last' = Event("EndGame", "none")
  /\ UNCHANGED <<page, counter, timer, onclick, table, split_hidden, split_disabled,
                 start_hidden, start_disabled, bet_hidden, bet_max, sent>>

\* buttons.js 161-171
TotalHand(player, second_hand, hand) ==
  /\ Receiving /\ page = "buttons"
  /\ IF ~Exists(player)
     THEN /\ last' = Event("TotalHand", "null_element")
          /\ UNCHANGED <<main, split>>
     ELSE LET r == Rewrite(IF second_hand THEN split[player] ELSE main[player], hand, 1)
          IN  /\ main' = IF second_hand THEN main ELSE [main EXCEPT ![player] = r.imgs]
              /\ split' = IF second_hand THEN [split EXCEPT ![player] = r.imgs] ELSE split
              /\ last' = Event("TotalHand", r.fault)
  /\ UNCHANGED <<page, counter, wsState, timer, onclick, player_count, dealer, mainHidden,
                 splitHidden, controls, sent>>

\* buttons.js 172-178
TotalDealerHand(hand) ==
  /\ Receiving /\ page = "buttons"
  /\ LET r == Rewrite(dealer, hand, 1)
     IN  dealer' = r.imgs /\ last' = Event("TotalDealerHand", r.fault)
  /\ UNCHANGED <<page, counter, wsState, timer, onclick, player_count, main, split,
                 mainHidden, splitHidden, controls, sent>>

\* game.js 24-61 (buttons.js 70-83): JSON.parse("null") is null; the three ===
\* tests fail and msg.hasOwnProperty throws.
NullMessage ==
  /\ Receiving
  /\ last' = Event("null", "null_msg")
  /\ UNCHANGED <<page, counter, wsState, timer, onclick, table, controls, sent>>

\* ------------------------------------------------- turn and bet messages
\* game.js 26-28 (buttons.js 72-73)
EndTurnMsg ==
  /\ Receiving
  /\ deal_disabled' = TRUE
  /\ last' = Event("EndTurn", "none")
  /\ UNCHANGED <<page, counter, wsState, timer, onclick, table, end_disabled, split_hidden,
                 split_disabled, start_hidden, start_disabled, bet_hidden, bet_max, sent>>

\* game.js 30-39 (buttons.js 74-82)
NewHost ==
  /\ Receiving
  /\ start_hidden' = FALSE
  /\ start_disabled' = FALSE
  /\ onclick' = onclick \cup {"start"}
  /\ last' = Event("NewHost", "none")
  /\ UNCHANGED <<page, counter, wsState, timer, table, deal_disabled, end_disabled,
                 split_hidden, split_disabled, bet_hidden, bet_max, sent>>

\* game.js 41-59
RequestBet ==
  /\ Receiving /\ page = "game"
  /\ bet_hidden' = FALSE
  /\ onclick' = onclick \cup {"bet"}
  /\ last' = Event("RequestBet", "none")
  /\ UNCHANGED <<page, counter, wsState, timer, table, deal_disabled, end_disabled,
                 split_hidden, split_disabled, start_hidden, start_disabled,
                 bet_max, sent>>

\* game.js 61-69 (buttons.js 83-90)
YourTurn(can_split) ==
  /\ Receiving
  /\ end_disabled' = FALSE
  /\ deal_disabled' = FALSE
  /\ split_hidden' = IF can_split THEN FALSE ELSE split_hidden
  /\ split_disabled' = IF can_split THEN FALSE ELSE split_disabled
  /\ last' = Event("YourTurn", "none")
  /\ UNCHANGED <<page, counter, wsState, timer, onclick, table, start_hidden, start_disabled,
                 bet_hidden, bet_max, sent>>

\* ------------------------------------------------------------------ clicks
\* JSON.stringify of a string, and of {"Bet":{"amount":n}}.
Stringify(str) == "\"" \o str \o "\""
BetJson(n) == "{\"Bet\":{\"amount\":" \o ToString(n) \o "}}"

\* The payload of the number page's deal button (buttons.js 12).
NextPayload == Stringify("Next")
\* game.js 14
DealPayload == Stringify("Deal")

\* A button's click handler runs when it is installed and the button is
\* neither disabled nor hidden.
CanClick(b) == Loaded /\ b \in onclick /\ Len(sent) < MaxSent

\* game.js 8-12
ClickEndTurn ==
  /\ CanClick("endturn") /\ ~end_disabled
  /\ sent' = Append(sent, Stringify("EndTurn"))
  /\ end_disabled' = TRUE
  /\ deal_disabled' = TRUE
  /\ last' = Event("click_endturn", "none")
  /\ UNCHANGED <<page, counter, wsState, timer, onclick, table, split_hidden, split_disabled,
                 start_hidden, start_disabled, bet_hidden, bet_max>>

\* game.js 13-15
ClickDeal ==
  /\ CanClick("deal") /\ ~deal_disabled
  /\ sent' = Append(sent, DealPayload)
  /\ last' = Event("click_deal", "none")
  /\ UNCHANGED <<page, counter, wsState, timer, onclick, table, controls>>

\* game.js 16-20
ClickSplit ==
  /\ CanClick("split") /\ ~split_disabled /\ ~split_hidden
  /\ sent' = Append(sent, Stringify("Split"))
  /\ split_hidden' = TRUE
  /\ split_disabled' = TRUE
  /\ last' = Event("click_split", "none")
  /\ UNCHANGED <<page, counter, wsState, timer, onclick, table, deal_disabled, end_disabled,
                 start_hidden, start_disabled, bet_hidden, bet_max>>

\* game.js 35-39
ClickStart ==
  /\ CanClick("start") /\ ~start_disabled /\ ~start_hidden
  /\ sent' = Append(sent, Stringify("GameStart"))
  /\ start_disabled' = TRUE
  /\ start_hidden' = TRUE
  /\ last' = Event("click_start", "none")
  /\ UNCHANGED <<page, counter, wsState, timer, onclick, table, deal_disabled, end_disabled,
                 split_hidden, split_disabled, bet_hidden, bet_max>>

\* A bet click that leaves the bet controls visible.
ClickBetStays(amount) ==
  /\ CanClick("bet") /\ ~bet_hidden
  /\ amount \in 0..bet_max
  /\ sent' = Append(sent, BetJson(amount))
  /\ bet_max' = bet_max - amount
  /\ last' = Event("click_bet", "none")
  /\ UNCHANGED <<page, counter, wsState, timer, onclick, table, deal_disabled, end_disabled,
                 split_hidden, split_disabled, start_hidden, start_disabled,
                 bet_hidden>>

\* A bet click that leaves the slider's max as it was.
ClickBetKeepsMax(amount) ==
  /\ CanClick("bet") /\ ~bet_hidden
  /\ amount \in 0..bet_max
  /\ sent' = Append(sent, BetJson(amount))
  /\ bet_hidden' = TRUE
  /\ last' = Event("click_bet", "none")
  /\ UNCHANGED <<page, counter, wsState, timer, onclick, table, deal_disabled, end_disabled,
                 split_hidden, split_disabled, start_hidden, start_disabled,
                 bet_max>>

\* game.js 52-59: amount is Number(bet_slider.value), which the slider keeps
\* between 0 and its max.
ClickBet(amount) ==
  /\ CanClick("bet") /\ ~bet_hidden
  /\ amount \in 0..bet_max
  /\ sent' = Append(sent, BetJson(amount))
  /\ bet_hidden' = TRUE
  /\ bet_max' = bet_max - amount
  /\ last' = Event("click_bet", "none")
  /\ UNCHANGED <<page, counter, wsState, timer, onclick, table, deal_disabled, end_disabled,
                 split_hidden, split_disabled, start_hidden, start_disabled>>

\* ------------------------------------------------------------------- Init
\* The page as served: every player container hidden and empty, the deal,
\* end-turn and split buttons disabled, the split, start and bet controls
\* hidden.
LoadedPage ==
  /\ main = [i \in Slots |-> << >>]
  /\ split = [i \in Slots |-> << >>]
  /\ dealer = << >>
  /\ mainHidden = [i \in Slots |-> TRUE]
  /\ splitHidden = [i \in Slots |-> TRUE]
  /\ deal_disabled = TRUE /\ end_disabled = TRUE
  /\ split_hidden = TRUE /\ split_disabled = TRUE
  /\ start_hidden = TRUE /\ start_disabled = TRUE
  /\ bet_hidden = TRUE /\ bet_max = InitMax

\* The click counter as served: no socket yet (let ws = null), the join
\* button usable, the click button hidden until ws.onopen shows it and
\* disabled until a "YourTurn" enables it.
CounterPage ==
  /\ sockets = << >>
  /\ join_disabled = FALSE
  /\ click_hidden = TRUE
  /\ click_disabled = TRUE

\* game.js 1-5, 22: window.onload creates the socket; player_count is 0.
Init ==
  /\ page \in {"game", "buttons"}
  /\ wsState = "connecting"
  /\ timer = "none"
  /\ onclick = {}
  /\ player_count = 0
  /\ sent = << >>
  /\ last = Event("load", "none")
  /\ LoadedPage
  /\ CounterPage

\* ---------------------------------------------------------- specifications
\* The server follows the protocol: it joins at most K players and names only
\* players below player_count.
Players == 0..(player_count - 1)

\* The messages about the table that game.js handles.
TableMessage ==
  \/ \E n \in 0..K : PlayerJoin(n)
  \/ \E p \in Players : PlayerLeave(p)
  \/ \E p \in Players : PlayerSplit(p)
  \/ \E h \in Players, s \in BOOLEAN, c \in Deals : Dealt(h, s, c)
  \/ \E c \in Deals : DealDealer(c)
  \/ \E h \in Hands : EndGame(h)
  \/ NullMessage

\* The messages about the table that the older script handles.
OldTableMessage ==
  \/ \E n \in 0..K : PlayerJoin(n)
  \/ \E p \in Players : PlayerLeaveOld(p)
  \/ \E p \in Players : PlayerSplit(p)
  \/ \E h \in Players, s \in BOOLEAN, c \in Deals : Dealt(h, s, c)
  \/ \E c \in Deals : DealDealer(c)
  \/ EndGameOld
  \/ \E p \in Players, s \in BOOLEAN, h \in Hands : TotalHand(p, s, h)
  \/ \E h \in Hands : TotalDealerHand(h)
  \/ NullMessage

\* The messages about the turn, the host and the bet.
TurnMessage ==
  \/ EndTurnMsg
  \/ NewHost
  \/ RequestBet
  \/ \E c \in BOOLEAN : YourTurn(c)
  \/ \E h \in Hands : EndGame(h)
  \/ NullMessage

Click ==
  \/ ClickEndTurn
  \/ ClickDeal
  \/ ClickSplit
  \/ ClickStart
  \/ \E a \in 0..InitMax : ClickBet(a)

NextTable == OnOpen \/ TableMessage \/ Redirect
NextOld == OnOpen \/ OldTableMessage
NextTurn == OnOpen \/ TurnMessage \/ Click \/ Redirect
Next == OnOpen \/ TableMessage \/ OldTableMessage \/ TurnMessage \/ Click \/ Redirect

InitGame == Init /\ page = "game"
InitButtons == Init /\ page = "buttons"

\* game.js and the seats: players join, leave and split, no card is dealt.
NextSeats ==
  \/ OnOpen
  \/ \E n \in 0..K : PlayerJoin(n)
  \/ \E p \in Players : PlayerLeave(p)
  \/ \E p \in Players : PlayerSplit(p)

\* game.js and the cards of a table where nobody splits or leaves.
NextDeal ==
  \/ OnOpen
  \/ \E n \in 0..K : PlayerJoin(n)
  \/ \E h \in Players, s \in BOOLEAN, c \in Deals : Dealt(h, s, c)
  \/ \E c \in Deals : DealDealer(c)
  \/ \E h \in Hands : EndGame(h)
  \/ NullMessage
  \/ Redirect

\* Either script and the messages whose handling can throw, at a table whose
\* players hold no cards.
NextFaults ==
  \/ OnOpen
  \/ \E n \in 0..K : PlayerJoin(n)
  \/ \E p \in Players : PlayerLeave(p)
  \/ \E p \in Players : PlayerLeaveOld(p)
  \/ \E p \in Players : PlayerSplit(p)
  \/ \E c \in Deals : DealDealer(c)
  \/ \E h \in Hands : EndGame(h)
  \/ EndGameOld
  \/ \E q \in Players, s \in BOOLEAN, h \in Hands : TotalHand(q, s, h)
  \/ \E h \in Hands : TotalDealerHand(h)
  \/ NullMessage
  \/ Redirect

\* game.js and the table, game.js and the controls, the older script and the
\* table, and everything at once.
SpecTable == InitGame /\ [][NextTable]_vars
SpecSeats == InitGame /\ [][NextSeats]_vars
SpecDeal == InitGame /\ [][NextDeal]_vars
SpecFaults == Init /\ [][NextFaults]_vars
SpecTurn == InitGame /\ [][NextTurn]_vars
SpecOld == InitButtons /\ [][NextOld]_vars
Spec == Init /\ [][Next]_vars

\* ------------------------------------------------------------------ claims
Visible(i) == ~mainHidden[i]

\* C1 as stated: after PlayerJoin{player:n} is handled, player_count is n and
\* the visible main containers are exactly player0 .. player(n-1), whatever the
\* state the message arrives in.
C1_ExactlyNVisible ==
  [][\A n \in 0..K : PlayerJoin(n) =>
       /\ player_count' = n
       /\ \A i \in Slots : ~mainHidden'[i] <=> i < n]_vars

\* C1 amended: after PlayerJoin{player:n} is handled, player_count is n and
\* player0 .. player(n-1) are visible; a container at or above n keeps the
\* visibility it had (PlayerJoin hides nothing), so exactly n are visible when
\* none of those was visible before.
C1_RevealsFirstN ==
  [][\A n \in 0..K : PlayerJoin(n) =>
       /\ player_count' = n
       /\ \A i \in Slots : i < n => ~mainHidden'[i]
       /\ \A i \in Slots : i >= n => mainHidden'[i] = mainHidden[i]]_vars

\* A PlayerJoin{player:2} has just been handled and revealed player0, player1.
C1_Witness ==
  /\ last = Event("PlayerJoin", "none")
  /\ player_count = 2
  /\ Visible(0) /\ Visible(1)

\* C2 as stated: PlayerLeave{player:p} with p < player_count moves the images
\* of every player(q), p < q < player_count, to player(q-1), drops the images
\* of the leaving player, hides the last container player(player_count-1) and
\* decrements player_count.
C2_LeaveShiftsDown ==
  [][\A p \in Players : PlayerLeave(p) =>
       /\ \A q \in (p + 1)..(player_count - 1) : main'[q - 1] = main[q]
       /\ p = player_count - 1 => main'[p] = << >>
       /\ mainHidden'[player_count - 1]
       /\ player_count' = player_count - 1]_vars

\* What C3 states of every state reached by PlayerJoin and PlayerLeave
\* messages: player(i) is visible if and only if i < player_count.
C3_VisibleBelowCount ==
  \A i \in Slots : Visible(i) <=> i < player_count

\* C3 as stated, for the PlayerLeave step: a PlayerLeave naming a player below
\* player_count, handled where player(i) is visible if and only if
\* i < player_count, leaves a state where that is so again.
C3_LeaveKeepsVisibleBelowCount ==
  [][((\E p \in Players : PlayerLeave(p)) /\ C3_VisibleBelowCount) =>
       C3_VisibleBelowCount']_vars

\* C4 as stated: with a server that follows the protocol no handler uses a
\* container that is missing from the page.
C4_NoMissingContainer ==
  last.fault # "null_element"

\* The image C5 expects for a dealt card.
C5_Image(card) ==
  IF card = Null THEN "/static/cards/back.svg" ELSE "/static/cards/AS.svg"

C5_DealtAppends ==
  /\ last'.ev = "Dealt" =>
       \A h \in Slots, s \in BOOLEAN, c \in Deals : Dealt(h, s, c) =>
         /\ dealer' = dealer
         /\ IF s THEN /\ split' = [split EXCEPT ![h] = Append(@, C5_Image(c))]
                      /\ main' = main
                 ELSE /\ main' = [main EXCEPT ![h] = Append(@, C5_Image(c))]
                      /\ split' = split
  /\ last'.ev = "DealDealer" =>
       \A c \in Deals : DealDealer(c) =>
         /\ dealer' = Append(dealer, C5_Image(c))
         /\ main' = main /\ split' = split

\* C5 as stated: each Dealt and each DealDealer appends exactly one image, the
\* back or the face of its card, at the end of the addressed container and no
\* other message of a run without PlayerSplit and PlayerLeave touches an
\* image, so that every container shows the cards dealt to it in arrival order.
C5_OnlyDealsChangeImages ==
  [][/\ C5_DealtAppends
     /\ last'.ev \notin {"Dealt", "DealDealer"} =>
          UNCHANGED <<main, split, dealer>>]_vars

\* C5 amended: each Dealt and each DealDealer appends exactly one image, the
\* back or the face of its card, at the end of the addressed container; absent
\* PlayerSplit and PlayerLeave every player container shows the cards dealt to
\* it in arrival order, and so does the dealer container until an EndGame
\* message, which rewrites dealer images in place (it adds and removes none).
C5_DealsAndReveal ==
  [][/\ C5_DealtAppends
     /\ last'.ev \notin {"Dealt", "DealDealer", "EndGame"} =>
          UNCHANGED <<main, split, dealer>>
     /\ last'.ev = "EndGame" =>
          /\ UNCHANGED <<main, split>>
          /\ Len(dealer') = Len(dealer)]_vars

\* A face-up card has just been dealt to a second hand that held a face-down
\* one.
C5_Witness ==
  /\ last = Event("Dealt", "none")
  /\ \E h \in Slots : split[h] = <<"/static/cards/back.svg", "/static/cards/AS.svg">>

\* C6 as stated: player_count is the player value of the most recent
\* PlayerJoin minus the number of PlayerLeave messages since, and never
\* negative: a PlayerJoin sets it, every PlayerLeave takes one off, nothing
\* else changes it.
C6_CountTracksMessages ==
  [][/\ \A n \in 0..K : PlayerJoin(n) => player_count' = n
     /\ \A p \in Players : PlayerLeave(p) => player_count' = player_count - 1
     /\ last'.ev \notin {"PlayerJoin", "PlayerLeave"} => player_count' = player_count
     /\ player_count' >= 0]_vars

\* C7: a callback that throws ends only itself: the socket stays open, the
\* page stays loaded, no redirect is armed and the installed click handlers
\* stay installed, so later messages and clicks are dispatched as before.
C7_AbortEndsOnlyCallback ==
  [][last'.fault # "none" =>
       /\ wsState' = wsState
       /\ timer' = timer
       /\ onclick' = onclick
       /\ Receiving']_vars

\* An EndGame with a hand longer than the dealer's images has rewritten the
\* one image there was and thrown: the socket is still open.
C7_Witness ==
  /\ last = Event("EndGame", "no_image")
  /\ dealer = <<"/static/cards/KS.svg">>
  /\ wsState = "open"

\* The payloads C8 allows.
C8_Payloads ==
  {"\"EndTurn\"", "\"Deal\"", "\"Split\"", "\"GameStart\""}
    \cup {"{\"Bet\":{\"amount\":" \o ToString(n) \o "}}" : n \in 0..InitMax}

C8_ClickPayloads(ev) ==
  CASE ev = "click_endturn" -> {"\"EndTurn\""}
    [] ev = "click_deal" -> {"\"Deal\""}
    [] ev = "click_split" -> {"\"Split\""}
    [] ev = "click_start" -> {"\"GameStart\""}
    [] ev = "click_bet" -> C8_Payloads \ {"\"EndTurn\"", "\"Deal\"", "\"Split\"", "\"GameStart\""}
    [] OTHER -> {}

\* C8: every payload handed to the socket is "EndTurn", "Deal", "Split",
\* "GameStart" or a Bet with a number; a click hands over exactly one, that of
\* its button, and no other callback hands over any.
C8_OnePayloadPerClick ==
  [][/\ \A i \in 1..Len(sent') : sent'[i] \in C8_Payloads
     /\ \/ sent' = sent /\ C8_ClickPayloads(last'.ev) = {}
        \/ \E m \in C8_ClickPayloads(last'.ev) : sent' = Append(sent, m)]_vars

\* The host has started the game and then bet 1.
C8_Witness ==
  /\ last = Event("click_bet", "none")
  /\ sent = <<"\"GameStart\"", "{\"Bet\":{\"amount\":1}}">>

\* C9 as stated: a PlayerLeave that throws leaves the table as it was.
C9_AbortedLeaveChangesNothing ==
  [][\A p \in Players : (PlayerLeave(p) /\ last'.fault # "none") =>
       UNCHANGED table]_vars

\* C10 as stated: the deal and end-turn buttons are both disabled whenever the
\* most recent turn event is not a YourTurn: they start disabled, the client's
\* EndTurn, an inbound "EndTurn" and EndGame leave both disabled, and only
\* YourTurn enables one.
C10_ButtonsOffOutsideTurn ==
  [][/\ last'.ev \in {"click_endturn", "EndTurn", "EndGame"} =>
          deal_disabled' /\ end_disabled'
     /\ (last'.ev # "YourTurn" /\ deal_disabled /\ end_disabled) =>
          deal_disabled' /\ end_disabled']_vars

\* C11 as stated: the split button is enabled only in a turn whose YourTurn
\* carried can_split = true, until the client sends "Split" or "EndTurn" or
\* receives "EndTurn" or EndGame: it starts disabled, only a YourTurn with
\* can_split enables it, and each of those four events, like a YourTurn
\* without can_split, leaves it disabled.
C11_SplitOnlyInSplitTurn ==
  [][/\ last'.ev \in {"click_split", "click_endturn", "EndTurn", "EndGame"} =>
          split_disabled'
     /\ YourTurn(FALSE) => split_disabled'
     /\ (split_disabled /\ ~YourTurn(TRUE)) => split_disabled']_vars

\* C12 as stated: an EndGame that has been handled has closed the socket, and
\* once the socket is closed every control whose click handler sends is
\* disabled or hidden.
C12_NoControlAfterEndGame ==
  /\ last = Event("EndGame", "none") => wsState = "closing"
  /\ wsState = "closing" =>
       /\ deal_disabled /\ end_disabled
       /\ split_disabled \/ split_hidden
       /\ start_disabled \/ start_hidden
       /\ bet_hidden

\* ------------------------------------------------- hands that split and leave
\* Either script and the hands of its players: joins, deals and splits.
NextSplits ==
  \/ OnOpen
  \/ \E n \in 0..K : PlayerJoin(n)
  \/ \E h \in Players, s \in BOOLEAN, c \in Deals : Dealt(h, s, c)
  \/ \E p \in Players : PlayerSplit(p)

SpecSplits == Init /\ [][NextSplits]_vars

\* game.js and the hands of its players as players leave a table that was full
\* or one short of full; first hands are dealt the ace, second hands a
\* face-down card.
NextHands ==
  \/ OnOpen
  \/ \E n \in (K - 1)..K : PlayerJoin(n)
  \/ \E h \in Players, s \in BOOLEAN :
        Dealt(h, s, IF s THEN Null ELSE <<"A", "S">>)
  \/ \E p \in Players : PlayerSplit(p)
  \/ \E p \in Players : PlayerLeave(p)

SpecHands == InitGame /\ [][NextHands]_vars

\* C13: a PlayerSplit{player:p} handled while player<p> holds an image moves
\* exactly the first image of player<p> to the end of player<p>.1 and makes
\* that container visible; the rest of player<p> keeps its order, every other
\* container is untouched, and the number of images on the page is unchanged.
C13_SplitMovesFirst ==
  [][\A p \in Players : (PlayerSplit(p) /\ main[p] # << >>) =>
       /\ last' = Event("PlayerSplit", "none")
       /\ split' = [split EXCEPT ![p] = Append(split[p], Head(main[p]))]
       /\ main' = [main EXCEPT ![p] = Tail(main[p])]
       /\ splitHidden' = [splitHidden EXCEPT ![p] = FALSE]
       /\ mainHidden' = mainHidden
       /\ Images' = Images]_vars

\* Player 1 was dealt a face-down card and then the ace, and a PlayerSplit
\* has moved the face-down card to the split container.
C13_Witness ==
  /\ last = Event("PlayerSplit", "none")
  /\ main[1] = <<FaceSrc(<<"A", "S">>)>>
  /\ split[1] = <<BackSrc>> /\ ~splitHidden[1]

\* C14 as stated: split hands follow their owner through a PlayerLeave{p},
\* whatever came before it: for p < q < player_count, player<q-1>.1 is
\* afterwards visible exactly if player<q>.1 was, and a visible one holds the
\* images player<q>.1 held, in order; the split containers at or above the new
\* player_count are hidden.
C14_SplitsFollowOwners ==
  [][last'.ev = "PlayerLeave" => \A p \in Players : PlayerLeave(p) =>
       /\ \A q \in (p + 1)..(player_count - 1) :
            /\ splitHidden'[q - 1] = splitHidden[q]
            /\ ~splitHidden[q] => split'[q - 1] = split[q]
       /\ \A i \in Slots : i >= player_count' => splitHidden'[i]]_vars

\* No image sits in a hidden split container: no Dealt with second_hand came
\* for a player whose split container no PlayerSplit had revealed.
C14_HiddenSplitsEmpty == \A i \in Slots : splitHidden[i] => split[i] = << >>

\* C14, amended: a PlayerLeave{p} handled while the hidden split containers
\* are empty moves the split hands down with their owners (visibility and
\* images, in order), leaves the split containers below p alone, and, when
\* the split containers at or above player_count were hidden, leaves those at
\* or above the new player_count hidden.
C14_SplitsFollowShownOwners ==
  [][last'.ev = "PlayerLeave" => \A p \in Players : PlayerLeave(p) =>
       /\ C14_HiddenSplitsEmpty =>
            \A q \in (p + 1)..(player_count - 1) :
              /\ splitHidden'[q - 1] = splitHidden[q]
              /\ split'[q - 1] = split[q]
       /\ \A q \in 0..(p - 1) :
            split'[q] = split[q] /\ splitHidden'[q] = splitHidden[q]
       /\ (\A i \in Slots : i >= player_count => splitHidden[i]) =>
            (\A i \in Slots : i >= player_count' => splitHidden'[i])]_vars

\* A PlayerLeave{0} has moved the split hand of player 1, a face-down card
\* after an ace, to player0.1.
C14_Witness ==
  /\ last.ev = "PlayerLeave"
  /\ ~splitHidden[0] /\ split[0] = <<FaceSrc(<<"A", "S">>), BackSrc>>
  /\ splitHidden[1] /\ split[1] = << >>

\* The number of images with source src among the children imgs.
C15_Occurs(imgs, src) == Cardinality({i \in 1..Len(imgs) : imgs[i] = src})

\* The number of images with source src in the containers q for which keep[q]
\* holds, first and second hands together.
RECURSIVE C15_OnTable(_, _, _, _, _)
C15_OnTable(m, s, keep, src, i) ==
  IF i >= K THEN 0
  ELSE (IF keep[i] THEN C15_Occurs(m[i], src) + C15_Occurs(s[i], src) ELSE 0)
       + C15_OnTable(m, s, keep, src, i + 1)

\* C15: a PlayerLeave{player:p}, whether it completes or throws, leaves the
\* images and the visibility of player<q> and player<q>.1 for every q < p,
\* the dealer's container and every button as they were, and loses or
\* duplicates no image of the other players: each image source occurs as
\* often in all the containers afterwards as it did outside player<p> and
\* player<p>.1 before.
C15_LeaveFrame ==
  [][last'.ev = "PlayerLeave" => \A p \in Players : PlayerLeave(p) =>
       /\ \A q \in 0..(p - 1) :
            /\ main'[q] = main[q] /\ split'[q] = split[q]
            /\ mainHidden'[q] = mainHidden[q]
            /\ splitHidden'[q] = splitHidden[q]
       /\ dealer' = dealer
       /\ UNCHANGED <<controls, onclick>>
       /\ \A src \in {BackSrc, FaceSrc(<<"A", "S">>)} :
            C15_OnTable(main', split', [q \in Slots |-> TRUE], src, 0)
              = C15_OnTable(main, split, [q \in Slots |-> q # p], src, 0)]_vars

\* A PlayerLeave has moved an ace from player2 to player1 and has left the
\* split hand of player 0 as it was.
C15_Witness ==
  /\ last.ev = "PlayerLeave"
  /\ split[0] = <<FaceSrc(<<"A", "S">>)>> /\ ~splitHidden[0]
  /\ main[1] = <<FaceSrc(<<"A", "S">>)>> /\ main[2] = << >>

\* The Bet payloads the page can send.
C16_Bets == {BetJson(n) : n \in 0..InitMax}

\* C16: a Bet is sent only in answer to a RequestBet.  None is sent before the
\* first RequestBet, which installs the bet button's handler; a bet click
\* finds the bet controls visible and hides them; and only a RequestBet shows
\* them again, so a RequestBet lies between any two Bets.
C16_BetAnswersRequest ==
  /\ []("bet" \notin onclick => \A i \in 1..Len(sent) : sent[i] \notin C16_Bets)
  /\ [][/\ (\E a \in 0..InitMax : sent' = Append(sent, BetJson(a))) =>
            (last'.ev = "click_bet" /\ ~bet_hidden /\ bet_hidden')
        /\ (bet_hidden /\ ~bet_hidden') => last'.ev = "RequestBet"]_vars

\* Two Bets have been sent, the second one after a second RequestBet.
C16_Witness ==
  /\ last = Event("click_bet", "none")
  /\ sent = <<BetJson(0), BetJson(InitMax)>>
  /\ bet_hidden

\* The amount of a Bet payload, 0 for any other payload.
C17_Amount(payload) ==
  IF payload \in C16_Bets
  THEN CHOOSE n \in 0..InitMax : payload = BetJson(n)
  ELSE 0

RECURSIVE C17_SumBets(_, _)
C17_SumBets(payloads, i) ==
  IF i > Len(payloads) THEN 0
  ELSE C17_Amount(payloads[i]) + C17_SumBets(payloads, i + 1)

\* C17: every bet click sends an amount between 0 and the slider's max and
\* reduces the max by exactly that amount, so the max is never negative and
\* the amounts of all Bets sent never add up to more than the initial max.
C17_BetsWithinMax ==
  /\ [](/\ bet_max >= 0
        /\ bet_max + C17_SumBets(sent, 1) = InitMax
        /\ C17_SumBets(sent, 1) <= InitMax)
  /\ [][last'.ev = "click_bet" =>
          \E a \in 0..bet_max : /\ sent' = Append(sent, BetJson(a))
                                /\ bet_max' = bet_max - a]_vars

\* Two Bets of 1 have used up the initial max.
C17_Witness ==
  /\ last = Event("click_bet", "none")
  /\ sent = <<BetJson(1), BetJson(InitMax - 1)>>
  /\ bet_max = 0

\* ------------------------------------------------------- hands shown at the end
\* Either script with one or two players, the cards dealt and the hands shown
\* at the end of the round.
NextReveal ==
  \/ OnOpen
  \/ \E n \in {1, 2} : PlayerJoin(n)
  \/ \E h \in Players, s \in BOOLEAN, c \in Deals : Dealt(h, s, c)
  \/ \E c \in Deals : DealDealer(c)
  \/ \E h \in Hands : EndGame(h)
  \/ \E p \in Players, s \in BOOLEAN, h \in Hands : TotalHand(p, s, h)
  \/ \E h \in Hands : TotalDealerHand(h)
  \/ Redirect

SpecReveal == Init /\ [][NextReveal]_vars

\* The image C18 expects for a card of a hand.
C18_Face(card) ==
  IF card = <<"A", "S">> THEN "/static/cards/AS.svg" ELSE "/static/cards/KS.svg"

\* The images imgs are as many as the cards of hand, and the i-th shows the
\* face of the i-th card.
C18_Shows(imgs, hand) ==
  /\ Len(imgs) = Len(hand)
  /\ \A i \in 1..Len(hand) : imgs[i] = C18_Face(hand[i])

\* C18: an EndGame{dealer_hand} handled while the dealer's container holds as
\* many images as dealer_hand has cards does not throw, keeps the number of
\* images and makes the i-th image show rank and suit of dealer_hand[i]; the
\* same holds for TotalDealerHand and, on the container it names, for
\* TotalHand in buttons.js.
C18_RevealShowsHand ==
  [][/\ last'.ev = "EndGame" => \A h \in Hands :
          (Len(dealer) = Len(h) /\ EndGame(h)) =>
            (last'.fault = "none" /\ C18_Shows(dealer', h))
     /\ last'.ev = "TotalDealerHand" => \A h \in Hands :
          (Len(dealer) = Len(h) /\ TotalDealerHand(h)) =>
            (last'.fault = "none" /\ C18_Shows(dealer', h))
     /\ last'.ev = "TotalHand" => \A p \in Players, h \in Hands :
          /\ (Len(main[p]) = Len(h) /\ TotalHand(p, FALSE, h)) =>
               (last'.fault = "none" /\ C18_Shows(main'[p], h))
          /\ (Len(split[p]) = Len(h) /\ TotalHand(p, TRUE, h)) =>
               (last'.fault = "none" /\ C18_Shows(split'[p], h))]_vars

\* EndGame has turned the dealer's face-down card and ace into the king and
\* the ace of its dealer_hand.
C18_Witness ==
  /\ last = Event("EndGame", "none")
  /\ dealer = <<C18_Face(<<"K", "S">>), C18_Face(<<"A", "S">>)>>

\* ------------------------------------------------------------ click counter
\* unnamed/part_001 (part_002 is the same script with a text box that
\* ws.onopen hides).  let ws: the socket the last join click created, 0 for
\* null.
ws == Len(sockets)

\* part_001 6-22: join_button.onclick creates a WebSocket and installs its
\* handlers; nothing disables the button before that socket opens.
ClickJoin ==
  /\ page = "click" /\ ~join_disabled
  /\ Len(sockets) < MaxSockets
  /\ sockets' = Append(sockets, "connecting")
  /\ last' = Event("click_join", "none")
  /\ UNCHANGED <<page, wsState, timer, onclick, table, controls, sent,
                 join_disabled, click_hidden, click_disabled>>

\* part_001 8-12: ws.onopen of socket s.
CounterOnOpen(s) ==
  /\ page = "click" /\ s \in 1..Len(sockets) /\ sockets[s] = "connecting"
  /\ sockets' = [sockets EXCEPT ![s] = "open"]
  /\ join_disabled' = TRUE
  /\ click_hidden' = FALSE
  /\ last' = Event("open", "none")
  /\ UNCHANGED <<page, wsState, timer, onclick, table, controls, sent,
                 click_disabled>>

\* part_001 13-21: ws.onmessage of socket s; "YourTurn" enables the click
\* button, any other message is only logged.
CounterOnMessage(s, msg) ==
  /\ page = "click" /\ s \in 1..Len(sockets) /\ sockets[s] = "open"
  /\ click_disabled' = IF msg = "YourTurn" THEN FALSE ELSE click_disabled
  /\ last' = Event(msg, "none")
  /\ UNCHANGED <<page, wsState, timer, onclick, table, controls, sent,
                 sockets, join_disabled, click_hidden>>

\* part_001 24-27: click_button.onclick calls ws.send and then disables the
\* button; ws.send throws when ws is null or still connecting, and the
\* button is then left as it was.
ClickClick ==
  /\ page = "click" /\ ~click_hidden /\ ~click_disabled
  /\ Len(sent) < MaxSent
  /\ IF ws = 0
     THEN /\ last' = Event("click_click", "null_ws")
          /\ UNCHANGED <<sent, click_disabled>>
     ELSE IF sockets[ws] # "open"
     THEN /\ last' = Event("click_click", "not_open")
          /\ UNCHANGED <<sent, click_disabled>>
     ELSE /\ sent' = Append(sent, Stringify("Click"))
          /\ click_disabled' = TRUE
          /\ last' = Event("click_click", "none")
  /\ UNCHANGED <<page, wsState, timer, onclick, table, controls,
                 sockets, join_disabled, click_hidden>>

\* part_001 1-5: window.onload.
InitCounter ==
  /\ page = "click"
  /\ wsState = "connecting"
  /\ timer = "none"
  /\ onclick = {}
  /\ player_count = 0
  /\ sent = << >>
  /\ last = Event("load", "none")
  /\ LoadedPage
  /\ CounterPage

NextCounter ==
  \/ ClickJoin
  \/ \E s \in 1..MaxSockets : CounterOnOpen(s)
  \/ \E s \in 1..MaxSockets, msg \in {"YourTurn", "Other"} : CounterOnMessage(s, msg)
  \/ ClickClick

SpecCounter == InitCounter /\ [][NextCounter]_vars

\* C19 as stated: every click on the click button disables it, a "Click" is
\* sent only by a click on the enabled button, and only an inbound
\* "YourTurn" enables the button again.
C19_ClickNeedsTurn ==
  [][/\ last'.ev = "click_click" => click_disabled'
     /\ sent' # sent => (last'.ev = "click_click" /\ ~click_disabled)
     /\ (click_disabled /\ ~click_disabled') => last'.ev = "YourTurn"]_vars

\* C20 as stated: a page load creates at most one WebSocket, whatever the
\* order of join clicks and socket-open callbacks, and no "Click" is sent
\* while ws is null.
C20_OneSocket ==
  /\ Len(sockets) <= 1
  /\ ws = 0 => sent = << >>

====
